---- MODULE Spec2Model ----
(***************************************************************************)
(* A model of uEagle.py, the client of the Rainforest EAGLE gateway:       *)
(* the public commands of class Eagle, post_cmd_final, TEMP_RESPONSE_FIX   *)
(* and the recursive normalisation process_data / convert_demand /         *)
(* convert_price.                                                          *)
(*                                                                         *)
(* Representation of Python values                                         *)
(*   str    [t |-> "str", s |-> chunks]   chunks: a sequence of pieces of  *)
(*          text.  Numeric literals are kept one character per piece       *)
(*          (<<"0","x","F","F">>) so that int(s, 0) really parses them;    *)
(*          key names are kept as one piece (<<"Multiplier">>).            *)
(*   int    [t |-> "int", n |-> Int]                                       *)
(*   float  [t |-> "float", q |-> Int, e |-> Nat]   the decimal q / 10^e,  *)
(*          normalised (no trailing zero in q while e > 0)                 *)
(*   time.struct_time  [t |-> "time", secs |-> Int]   localtime(secs)      *)
(*   dict   [t |-> "dict", kv |-> <<[k |-> chunks, v |-> value], ...>>]    *)
(*          in insertion order (the order d.values() iterates in)          *)
(*   list   [t |-> "list", items |-> <<value, ...>>]                       *)
(* A Python int that may exceed the checker's integers (the operand of     *)
(* pack('>I', .)) is kept as [neg |-> BOOLEAN, mag |-> hex digits], most   *)
(* significant digit first, without leading zeros.                         *)
(***************************************************************************)
EXTENDS Integers, Sequences, FiniteSets, TLC

VARIABLES
    pc,        \* position of the run: "start" / "idle", then where it ended
    EPOCH_DELTA, \* the module constant chosen at import from sys.platform
    addr,      \* Eagle.addr, set by the constructor
    call,      \* the public command called and its arguments
    sent,      \* the requests handed to requests.post during the call
    response,  \* the transport's answer: status code and text
    steps,     \* what post_cmd_final did with the answer, in order
    data,      \* the structure process_data is given (as parsed)
    out,       \* the structure after process_data (mutated in place)
    err,       \* the exception that left the call, "none" when it returned
    out2,      \* the structure after a second process_data
    err2       \* the exception of the second process_data

vars == <<pc, EPOCH_DELTA, addr, call, sent, response, steps, data, out, err, out2, err2>>

None == [t |-> "None"]
Str(chunks) == [t |-> "str", s |-> chunks]
PyInt(n) == [t |-> "int", n |-> n]
Dict(kv) == [t |-> "dict", kv |-> kv]
List(items) == [t |-> "list", items |-> items]

-----------------------------------------------------------------------------
(* Arithmetic helpers                                                      *)

RECURSIVE Pow10(_)
Pow10(n) == IF n <= 0 THEN 1 ELSE 10 * Pow10(n - 1)

Max(a, b) == IF a >= b THEN a ELSE b

\* The float q / 10^e, with the trailing zeros of the decimal removed, so
\* that equal floats are equal values.
RECURSIVE Float(_, _)
Float(q, e) ==
    IF e > 0 /\ q % 10 = 0 THEN Float(q \div 10, e - 1)
    ELSE [t |-> "float", q |-> q, e |-> e]

\* num / den (den > 0) rounded to the nearest integer, ties to even: what
\* round() does with a float whose value is exactly num / den.
RoundHalfEven(num, den) ==
    LET q == num \div den
        r == num % den
    IN  IF 2 * r < den THEN q
        ELSE IF 2 * r > den THEN q + 1
        ELSE IF q % 2 = 0 THEN q ELSE q + 1

-----------------------------------------------------------------------------
(* int(s, 0)                                                               *)

HexChars == <<"0","1","2","3","4","5","6","7","8","9","A","B","C","D","E","F">>
LowerHexChars == <<"0","1","2","3","4","5","6","7","8","9","a","b","c","d","e","f">>

IsHexChar(c) == \E i \in 1..16 : HexChars[i] = c \/ LowerHexChars[i] = c
IsDecChar(c) == \E i \in 1..10 : HexChars[i] = c
DigitOf(c) == (CHOOSE i \in 1..16 : HexChars[i] = c \/ LowerHexChars[i] = c) - 1

RECURSIVE StripZeros(_)
StripZeros(ds) ==
    IF ds # <<>> /\ Head(ds) = 0 THEN StripZeros(Tail(ds)) ELSE ds

\* A Python int from its sign and hexadecimal digits.
Big(neg, ds) ==
    LET m == StripZeros(ds) IN [neg |-> neg /\ m # <<>>, mag |-> m]

RECURSIVE DecValue(_, _)
DecValue(cs, acc) ==
    IF cs = <<>> THEN acc ELSE DecValue(Tail(cs), 10 * acc + DigitOf(Head(cs)))

RECURSIVE HexDigitsOf(_)
HexDigitsOf(n) ==
    IF n = 0 THEN <<>> ELSE Append(HexDigitsOf(n \div 16), n % 16)

\* int(x, 0) of a Python value x: [err, big].  A non-string operand with an
\* explicit base is a TypeError; a string that is no literal a ValueError.
\* Literals covered: an optional sign, then 0x/0X and hex digits, or a
\* decimal literal without leading zeros (or all zeros).
int_base0(x) ==
    IF x.t # "str" THEN [err |-> "TypeError", big |-> Big(FALSE, <<>>)]
    ELSE
    LET s == x.s
        signed == s # <<>> /\ Head(s) \in {"-", "+"}
        neg == s # <<>> /\ Head(s) = "-"
        body == IF signed THEN Tail(s) ELSE s
        isHex == /\ Len(body) >= 3
                 /\ body[1] = "0" /\ body[2] \in {"x", "X"}
                 /\ \A i \in 3..Len(body) : IsHexChar(body[i])
        isDec == /\ Len(body) >= 1
                 /\ \A i \in 1..Len(body) : IsDecChar(body[i])
                 /\ (body[1] # "0" \/ \A i \in 1..Len(body) : body[i] = "0")
    IN  IF isHex
        THEN [err |-> "none",
              big |-> Big(neg, [i \in 1..(Len(body) - 2) |-> DigitOf(body[i + 2])])]
        ELSE IF isDec
        THEN [err |-> "none", big |-> Big(neg, HexDigitsOf(DecValue(body, 0)))]
        ELSE [err |-> "ValueError", big |-> Big(FALSE, <<>>)]

\* The value of a Python int as an integer of the checker.
RECURSIVE MagValue(_, _)
MagValue(ds, acc) ==
    IF ds = <<>> THEN acc ELSE MagValue(Tail(ds), 16 * acc + Head(ds))

IntOf(big) == IF big.neg THEN 0 - MagValue(big.mag, 0) ELSE MagValue(big.mag, 0)

-----------------------------------------------------------------------------
(* struct.pack('>I', v) and struct.unpack('>i', b)[0]                      *)

\* pack('>I', v): the four bytes of v, most significant first; struct.error
\* unless 0 <= v <= 0xFFFFFFFF.
pack_I(big) ==
    IF big.neg \/ Len(big.mag) > 8
    THEN [err |-> "struct.error", bytes |-> <<>>]
    ELSE LET pad == [i \in 1..(8 - Len(big.mag)) |-> 0] \o big.mag
         IN  [err |-> "none",
              bytes |-> [i \in 1..4 |-> 16 * pad[2 * i - 1] + pad[2 * i]]]

\* A wrong unpack: the bytes read least significant first ('<i').
unpack_i_LittleEndian(b) ==
    LET top == IF b[4] >= 128 THEN b[4] - 256 ELSE b[4]
    IN  top * 16777216 + b[3] * 65536 + b[2] * 256 + b[1]

\* unpack('>i', b)[0]: the same 32 bits read as a two's-complement integer.
unpack_i(b) ==
    LET top == IF b[1] >= 128 THEN b[1] - 256 ELSE b[1]
    IN  top * 16777216 + b[2] * 65536 + b[3] * 256 + b[4]

-----------------------------------------------------------------------------
(* dict operations, on the insertion-ordered pairs                         *)

Key(name) == <<name>>

HasKey(d, name) == \E i \in 1..Len(d.kv) : d.kv[i].k = Key(name)

KeyIndex(d, name) == CHOOSE i \in 1..Len(d.kv) : d.kv[i].k = Key(name)

Keys(d) == {d.kv[i].k : i \in 1..Len(d.kv)}

\* d[name]
GetItem(d, name) ==
    IF HasKey(d, name)
    THEN [err |-> "none", v |-> d.kv[KeyIndex(d, name)].v]
    ELSE [err |-> "KeyError", v |-> None]

\* d[name] = v
SetItem(d, name, v) ==
    IF HasKey(d, name)
    THEN Dict([d.kv EXCEPT ![KeyIndex(d, name)].v = v])
    ELSE Dict(Append(d.kv, [k |-> Key(name), v |-> v]))

\* del d[name], for a key that is present
DelItem(d, name) ==
    LET i == KeyIndex(d, name)
    IN  Dict(SubSeq(d.kv, 1, i - 1) \o SubSeq(d.kv, i + 1, Len(d.kv)))

\* How a statement ends: the exception it raised ("none" when it ran
\* through) and the structure as it leaves it.
Ok(v) == [err |-> "none", v |-> v]
Raise(e, v) == [err |-> e, v |-> v]

\* r, then the statements Rest on what r left, unless r raised.
Then(r, Rest(_)) == IF r.err # "none" THEN r ELSE Rest(r.v)

\* i == int(..., 0) evaluated while the structure is d, then Rest on its
\* value, unless the evaluation raised.
WithInt(i, d, Rest(_)) == IF i.err # "none" THEN Raise(i.err, d) ELSE Rest(i.big)

\* The del statements of a function, in order: the first missing key raises
\* KeyError, the keys before it are already gone.
RECURSIVE DelItems(_, _)
DelItems(d, names) ==
    IF names = <<>> THEN Ok(d)
    ELSE IF ~HasKey(d, Head(names)) THEN Raise("KeyError", d)
    ELSE DelItems(DelItem(d, Head(names)), Tail(names))

\* A wrong lookup: a missing key read as "0x0" (d.get(name, '0x0')).
IntOfItem_Default(g) ==
    IF g.err # "none" THEN int_base0(Str(<<"0", "x", "0">>)) ELSE int_base0(g.v)

\* int(v, 0) of the outcome g of d[name]
IntOfItem(g) ==
    IF g.err # "none" THEN [err |-> g.err, big |-> Big(FALSE, <<>>)]
    ELSE int_base0(g.v)

\* int(d[name], 0)
ItemInt(d, name) == IntOfItem(GetItem(d, name))

-----------------------------------------------------------------------------
(* convert_demand                                                          *)

\* a / b of two ints, kept as the exact fraction with a positive denominator.
TrueDiv(a, b) ==
    IF b = 0 THEN [err |-> "ZeroDivisionError", num |-> 0, den |-> 1]
    ELSE IF b < 0 THEN [err |-> "none", num |-> 0 - a, den |-> 0 - b]
    ELSE [err |-> "none", num |-> a, den |-> b]

\* A wrong factor: the quotient without the two max(., 1).
factor_NoMax(mult, div) == TrueDiv(IntOf(mult), IntOf(div))

\* Line 186: max(int(d['Multiplier'], 0), 1) / max(int(d['Divisor'], 0), 1)
factor(mult, div) == TrueDiv(Max(IntOf(mult), 1), Max(IntOf(div), 1))

\* round(x * factor, n_dec): the product rounded to n_dec decimals.  The
\* float arithmetic is modelled by the exact fraction, which agrees with it
\* wherever x * num / den is no inexact decimal tie.
RoundScaled(x, f, n_dec) ==
    IF n_dec >= 0
    THEN Float(RoundHalfEven(x * f.num * Pow10(n_dec), f.den), n_dec)
    ELSE Float(RoundHalfEven(x * f.num, f.den * Pow10(0 - n_dec)) * Pow10(0 - n_dec), 0)

\* Lines 191-193, on demand == int(d['Demand'], 0).
StoreDemand(d, bytes_demand, f, n_dec) ==
    IF bytes_demand.err # "none" THEN Raise(bytes_demand.err, d)
    ELSE Ok(SetItem(d, "Demand",
                    RoundScaled(unpack_i(bytes_demand.bytes), f, n_dec)))

\* Lines 190-193: the Demand branch.
DemandBranch(d, f, n_dec) ==
    WithInt(ItemInt(d, "Demand"), d,
            LAMBDA demand : StoreDemand(d, pack_I(demand), f, n_dec))

\* d[name] = round(int(d[name], 0) * factor, n_dec)
ScaleItem(d, name, f, n_dec) ==
    WithInt(ItemInt(d, name), d,
            LAMBDA x : Ok(SetItem(d, name, RoundScaled(IntOf(x), f, n_dec))))

\* Lines 195-196: the branch without Demand.
SummationBranch(d, f, n_dec) ==
    Then(ScaleItem(d, "SummationDelivered", f, n_dec),
         LAMBDA d1 : ScaleItem(d1, "SummationReceived", f, n_dec))

\* Wrong lists of del statements: the trigger key kept; DigitsLeft forgotten.
DemandRawKeys_KeepTrigger ==
    <<"Divisor", "DigitsRight", "DigitsLeft", "SuppressLeadingZero">>
DemandRawKeys_NoDigitsLeft ==
    <<"Multiplier", "Divisor", "DigitsRight", "SuppressLeadingZero">>

\* Lines 198-202: the keys deleted, in order.
DemandRawKeys ==
    <<"Multiplier", "Divisor", "DigitsRight", "DigitsLeft", "SuppressLeadingZero">>

\* Lines 189-202, with factor and n_dec computed.
ScaleAndStrip(d, f, n_dec) ==
    IF f.err # "none" THEN Raise(f.err, d)
    ELSE Then(IF HasKey(d, "Demand") THEN DemandBranch(d, f, n_dec)
              ELSE SummationBranch(d, f, n_dec),
              LAMBDA d1 : DelItems(d1, DemandRawKeys))

convert_demand(d) ==
    WithInt(ItemInt(d, "Multiplier"), d, LAMBDA m :
    WithInt(ItemInt(d, "Divisor"), d, LAMBDA dv :
    WithInt(ItemInt(d, "DigitsRight"), d, LAMBDA nd :
        ScaleAndStrip(d, factor(m, dv), IntOf(nd)))))

-----------------------------------------------------------------------------
(* convert_price                                                           *)

\* int(Price, 0) / 10**int(TrailingDigits, 0)
PriceValue(p, digits) ==
    IF digits >= 0 THEN Float(p, digits) ELSE Float(p * Pow10(0 - digits), 0)

\* Lines 208-210.
StoreCurrency(d) ==
    WithInt(ItemInt(d, "Currency"), d, LAMBDA c :
        DelItems(SetItem(d, "Currency", PyInt(IntOf(c))), <<"TrailingDigits">>))

convert_price(d) ==
    WithInt(ItemInt(d, "Price"), d, LAMBDA p :
    WithInt(ItemInt(d, "TrailingDigits"), d, LAMBDA td :
        StoreCurrency(SetItem(d, "Price", PriceValue(IntOf(p), IntOf(td))))))

-----------------------------------------------------------------------------
(* process_data                                                            *)

\* A wrong timestamp rule: the local time stored under a key of its own.
convert_timestamp_NewKey(d) ==
    WithInt(ItemInt(d, "TimeStamp"), d, LAMBDA ts :
        Ok(SetItem(d, "LocalTime",
                   [t |-> "time", secs |-> IntOf(ts) + EPOCH_DELTA])))

\* Line 181: d['TimeStamp'] = time.localtime(int(d['TimeStamp'], 0) + EPOCH_DELTA)
convert_timestamp(d) ==
    WithInt(ItemInt(d, "TimeStamp"), d, LAMBDA ts :
        Ok(SetItem(d, "TimeStamp",
                   [t |-> "time", secs |-> IntOf(ts) + EPOCH_DELTA])))

\* One rule of lines 173-181, behind its trigger key.
ApplyRule(rule, d) ==
    CASE rule = "demand" ->
            IF HasKey(d, "Multiplier") THEN convert_demand(d) ELSE Ok(d)
      [] rule = "price" ->
            IF HasKey(d, "Price") THEN convert_price(d) ELSE Ok(d)
      [] rule = "timestamp" ->
            IF HasKey(d, "TimeStamp") THEN convert_timestamp(d) ELSE Ok(d)

\* The rules in the order process_data applies them.
RuleOrder == <<"demand", "price", "timestamp">>

\* The rules one after the other; the first to raise ends the run.
RECURSIVE ApplyRules(_, _)
ApplyRules(d, rules) ==
    IF rules = <<>> THEN Ok(d)
    ELSE Then(ApplyRule(Head(rules), d), LAMBDA d1 : ApplyRules(d1, Tail(rules)))

RECURSIVE process_data(_)
RECURSIVE ProcessValues(_, _)
RECURSIVE ProcessItems(_, _)

\* The list l with the outcome r of process_data on its element j.
PutItem(l, j, r) == [err |-> r.err, v |-> List([l.items EXCEPT ![j] = r.v])]

\* The dict d with the outcome r of the loop body on its value i.
PutValue(d, i, r) == [err |-> r.err, v |-> Dict([d.kv EXCEPT ![i].v = r.v])]

\* Lines 170-171: for vi in v: process_data(vi), from element j on.
ProcessItems(l, j) ==
    IF j > Len(l.items) THEN Ok(l)
    ELSE Then(PutItem(l, j, process_data(l.items[j])),
              LAMBDA l2 : ProcessItems(l2, j + 1))

\* Lines 167-171: the body of the loop, on one value of the dict.
ProcessValue(c) ==
    IF c.t = "dict" THEN process_data(c)
    ELSE IF c.t = "list" THEN ProcessItems(c, 1)
    ELSE Ok(c)

\* Lines 166-171: for v in d.values(), from value i on.
ProcessValues(d, i) ==
    IF i > Len(d.kv) THEN Ok(d)
    ELSE Then(PutValue(d, i, ProcessValue(d.kv[i].v)),
              LAMBDA d2 : ProcessValues(d2, i + 1))

\* process_data(d): the exception raised and d as the call leaves it.  Only
\* a dict has .values(); any other argument is an AttributeError.
process_data(d) ==
    IF d.t # "dict" THEN Raise("AttributeError", d)
    ELSE Then(ProcessValues(d, 1), LAMBDA d1 : ApplyRules(d1, RuleOrder))

-----------------------------------------------------------------------------
(* The records and documents the device is taken to send                   *)

Hex(digits) == Str(<<"0", "x">> \o digits)

\* hex(n) for n >= 0, as the characters after "0x"
HexCharsOf(n) ==
    IF n = 0 THEN <<"0">>
    ELSE LET ds == HexDigitsOf(n) IN [i \in 1..Len(ds) |-> HexChars[ds[i] + 1]]

MaxDepth == 2        \* wrappers around the leaf record of a document
MaxDrop == 1         \* keys missing from an otherwise complete record
MaxDemand == 3       \* magnitude of the small demand and summation values
MaxMultiplier == 3   \* largest multiplier of the scaling inputs

RawKeyNames ==
    {"Multiplier", "Divisor", "DigitsRight", "DigitsLeft", "SuppressLeadingZero"}
SummationKeyNames == {"SummationDelivered", "SummationReceived"}
PriceKeyNames == {"Price", "TrailingDigits", "Currency"}

\* A complete record as the device lays it out, with sample values.
SamplePairs ==
    << [k |-> Key("DeviceMacId"), v |-> Str(<<"0xd8d5b9000000abcd">>)],
       [k |-> Key("TimeStamp"), v |-> Hex(<<"2", "A">>)],
       [k |-> Key("Demand"), v |-> Hex(<<"F","F","F","F","F","F","F","E">>)],
       [k |-> Key("SummationDelivered"), v |-> Hex(<<"7", "D", "0">>)],
       [k |-> Key("SummationReceived"), v |-> Hex(<<"0">>)],
       [k |-> Key("Multiplier"), v |-> Hex(<<"1">>)],
       [k |-> Key("Divisor"), v |-> Hex(<<"3", "E", "8">>)],
       [k |-> Key("DigitsRight"), v |-> Hex(<<"3">>)],
       [k |-> Key("DigitsLeft"), v |-> Hex(<<"6">>)],
       [k |-> Key("SuppressLeadingZero"), v |-> Str(<<"Y">>)],
       [k |-> Key("Price"), v |-> Hex(<<"3", "E", "8">>)],
       [k |-> Key("Currency"), v |-> Hex(<<"3", "4", "8">>)],
       [k |-> Key("TrailingDigits"), v |-> Hex(<<"2">>)] >>

AllKeyNames == {SamplePairs[i].k[1] : i \in 1..Len(SamplePairs)}

InKeySet(K, p) == p.k[1] \in K

\* The record with the keys K, in the device's order.
Rec(K) == Dict(SelectSeq(SamplePairs, LAMBDA p : InKeySet(K, p)))

BaseKeySets ==
    {D \cup P \cup T \cup O :
        D \in {{}, RawKeyNames \cup {"Demand"}, RawKeyNames \cup SummationKeyNames,
               RawKeyNames \cup SummationKeyNames \cup {"Demand"}},
        P \in {{}, PriceKeyNames},
        T \in {{}, {"TimeStamp"}},
        O \in {{}, {"DeviceMacId"}}}

DropSets == {X \in SUBSET AllKeyNames : Cardinality(X) <= MaxDrop}

KeySets == {B \ X : B \in BaseKeySets, X \in DropSets}

\* What surrounds the leaf record: a dict holding it beside a scalar, a list
\* of it alone, a list of a scalar and it, a list of a list and it.
Wrappers == {"dict", "list", "listScalar", "listList"}

WrapOnce(w, x) ==
    CASE w = "dict" ->
            Dict(<< [k |-> Key("MeterMacId"), v |-> Str(<<"0x00078100000000ff">>)],
                    [k |-> Key("Inner"), v |-> x] >>)
      [] w = "list" -> List(<<x>>)
      [] w = "listScalar" -> List(<<Str(<<"Y">>), x>>)
      [] w = "listList" -> List(<<List(<<>>), x>>)

\* shape[1] is the outermost wrapper.
RECURSIVE Wrap(_, _)
Wrap(shape, x) ==
    IF shape = <<>> THEN x ELSE WrapOnce(Head(shape), Wrap(Tail(shape), x))

Shapes == UNION {[1..n -> Wrappers] : n \in 0..MaxDepth}

Documents == {Wrap(sh, Rec(K)) : sh \in Shapes, K \in KeySets}

EpochDeltas == {946684800, 0}

-----------------------------------------------------------------------------
(* Normalisation on its own: process_data applied to a document, and       *)
(* applied once more to what the first application left.                   *)

Normalize ==
    /\ pc = "start"
    /\ \E r \in {process_data(data)} :
           /\ out' = r.v
           /\ err' = r.err
           /\ pc' = IF r.err = "none" THEN "normalized" ELSE "failed"
    /\ UNCHANGED <<EPOCH_DELTA, addr, call, sent, response, steps, data, out2, err2>>

Renormalize ==
    /\ pc = "normalized"
    /\ \E r \in {process_data(out)} :
           /\ out2' = r.v
           /\ err2' = r.err
           /\ pc' = IF r.err = "none" THEN "renormalized" ELSE "refailed"
    /\ UNCHANGED <<EPOCH_DELTA, addr, call, sent, response, steps, data, out, err>>

NextNorm == Normalize \/ Renormalize

InitNormCommon ==
    /\ pc = "start"
    /\ EPOCH_DELTA \in EpochDeltas
    /\ addr = None /\ call = None /\ sent = <<>> /\ response = None /\ steps = <<>>
    /\ out = None /\ err = "none" /\ out2 = None /\ err2 = "none"

InitNorm == InitNormCommon /\ data \in Documents

SpecNorm == InitNorm /\ [][NextNorm]_vars

-----------------------------------------------------------------------------
(* Demand and summation records for the arithmetic of convert_demand       *)

\* The 32 bits of a signed value as eight hex characters, the way the device
\* writes a demand: the unsigned number s mod 2^32.
LowerHexChar(digit) == LowerHexChars[digit + 1]

Hex4(n) ==
    << LowerHexChar((n \div 4096) % 16), LowerHexChar((n \div 256) % 16),
       LowerHexChar((n \div 16) % 16), LowerHexChar(n % 16) >>

EncodeU32(s) == Hex4((s \div 65536) % 65536) \o Hex4(s % 65536)

\* Signed values at the edges of the 32-bit and of the byte boundaries.
EdgeDemands ==
    {0 - 2147483647 - 1, 0 - 2147483647, 0 - 16777217, 0 - 16777216,
     0 - 65537, 0 - 65536, 0 - 257, 0 - 256, 0 - 129, 0 - 128,
     127, 128, 255, 256, 65535, 65536, 16777215, 16777216,
     2147483646, 2147483647}

SmallDemands == (0 - MaxDemand)..MaxDemand

\* Demand strings that are no unsigned 32-bit number, and the three of the
\* round-trip examples in upper case.
OddDemands ==
    {Hex(<<"1","0","0","0","0","0","0","0","0">>), Str(<<"-","0","x","1">>),
     Hex(<<"F","F","F","F","F","F","F","F">>), Hex(<<"8","0","0","0","0","0","0","0">>),
     Hex(<<"7","F","F","F","F","F","F","F">>)}

Multipliers == 0..MaxMultiplier
Divisors == {0, 1, 2, 1000}
DigitsRights == {0, 1, 3}

HexOf(n) == Hex(HexCharsOf(n))

ScalingPairs(m, dv, n) ==
    << [k |-> Key("Multiplier"), v |-> HexOf(m)],
       [k |-> Key("Divisor"), v |-> HexOf(dv)],
       [k |-> Key("DigitsRight"), v |-> HexOf(n)],
       [k |-> Key("DigitsLeft"), v |-> Hex(<<"6">>)],
       [k |-> Key("SuppressLeadingZero"), v |-> Str(<<"Y">>)] >>

\* An InstantaneousDemand record whose Demand string is dem.
DemandRecOf(dem, m, dv, n) ==
    Dict(<<[k |-> Key("Demand"), v |-> dem]>> \o ScalingPairs(m, dv, n))

DemandRec(s, m, dv, n) == DemandRecOf(Hex(EncodeU32(s)), m, dv, n)

\* A CurrentSummation record.
SummationRec(sd, sr, m, dv, n) ==
    Dict(<<[k |-> Key("SummationDelivered"), v |-> HexOf(sd)],
           [k |-> Key("SummationReceived"), v |-> HexOf(sr)]>>
         \o ScalingPairs(m, dv, n))

DemandInputs ==
    {DemandRec(s, m, dv, 0) : s \in EdgeDemands, m \in {0, 1}, dv \in {0, 1}}
    \cup {DemandRecOf(dem, m, dv, 0) : dem \in OddDemands, m \in {0, 1}, dv \in {0, 1}}
    \cup {DemandRec(s, m, dv, n) :
            s \in SmallDemands, m \in Multipliers, dv \in Divisors, n \in DigitsRights}
    \cup {SummationRec(sd, sr, m, dv, n) :
            sd \in 0..MaxDemand, sr \in 0..MaxDemand,
            m \in Multipliers, dv \in Divisors, n \in DigitsRights}

InitDemand == InitNormCommon /\ data \in DemandInputs

SpecDemand == InitDemand /\ [][NextNorm]_vars

-----------------------------------------------------------------------------
(* Reading a structure for the properties                                  *)

\* Every dict of a structure, parents before children, in document order.
\* process_data keeps the shape, so the i-th dict before corresponds to the
\* i-th after.
RECURSIVE Records(_)
RECURSIVE RecordsIn(_, _)
Records(v) ==
    IF v.t = "dict" THEN <<v>> \o RecordsIn([i \in 1..Len(v.kv) |-> v.kv[i].v], 1)
    ELSE IF v.t = "list" THEN RecordsIn(v.items, 1)
    ELSE <<>>
RecordsIn(vs, i) ==
    IF i > Len(vs) THEN <<>> ELSE Records(vs[i]) \o RecordsIn(vs, i + 1)

\* The leaf record of a document: through "Inner" and last list elements.
RECURSIVE Leaf(_)
Leaf(v) ==
    IF v.t = "dict" /\ HasKey(v, "Inner") THEN Leaf(GetItem(v, "Inner").v)
    ELSE IF v.t = "list" /\ v.items # <<>> THEN Leaf(v.items[Len(v.items)])
    ELSE v

KeySetOf(names) == {Key(n) : n \in names}

Ran == pc \in {"normalized", "failed", "renormalized", "refailed"}
Succeeded == pc \in {"normalized", "renormalized", "refailed"}
RanTwice == pc \in {"renormalized", "refailed"}

-----------------------------------------------------------------------------
(* Properties of convert_demand's arithmetic, under SpecDemand             *)

\* The scaled and rounded value the specification gives for the integer x:
\* x * max(m, 1) / max(dv, 1), rounded to n decimals.
ExpectedScaled(x, m, dv, n) ==
    Float(RoundHalfEven(x * (IF m = 0 THEN 1 ELSE m) * Pow10(n),
                        IF dv = 0 THEN 1 ELSE dv), n)

ItemOf(d, name) == GetItem(d, name).v

\* The scaling inputs m, dv, n are the ones the record data was built from.
ScaledBy(m, dv, n) ==
    /\ ItemOf(data, "Multiplier") = HexOf(m)
    /\ ItemOf(data, "Divisor") = HexOf(dv)
    /\ ItemOf(data, "DigitsRight") = HexOf(n)

\* C1: a Demand written as the unsigned 32-bit hex of a signed value s is
\* decoded to s itself before scaling (0xFFFFFFFF to -1, 0x80000000 to
\* -2^31, 0x7FFFFFFF to 2^31 - 1), for every signed 32-bit s tried.
C1_SignedRoundTrip ==
    Ran =>
      \A m \in Multipliers, dv \in Divisors, n \in DigitsRights :
        ScaledBy(m, dv, n) =>
          /\ \A s \in EdgeDemands \cup SmallDemands :
                data = DemandRec(s, m, dv, n) =>
                    /\ err = "none"
                    /\ ItemOf(out, "Demand") = ExpectedScaled(s, m, dv, n)
          /\ data = DemandRecOf(Hex(<<"F","F","F","F","F","F","F","F">>), m, dv, 0)
                => err = "none" /\ ItemOf(out, "Demand") = Float(0 - 1, 0)
          /\ data = DemandRecOf(Hex(<<"8","0","0","0","0","0","0","0">>), m, dv, 0)
                => err = "none" /\ ItemOf(out, "Demand") = Float(0 - 2147483647 - 1, 0)
          /\ data = DemandRecOf(Hex(<<"7","F","F","F","F","F","F","F">>), m, dv, 0)
                => err = "none" /\ ItemOf(out, "Demand") = Float(2147483647, 0)

\* C1's case: the record with Demand 0xFFFFFFFF has been converted, to -1.
C1_Witness ==
    /\ pc = "normalized"
    /\ data = DemandRecOf(Hex(<<"F","F","F","F","F","F","F","F">>), 1, 1, 0)
    /\ ItemOf(out, "Demand") = Float(0 - 1, 0)

\* C8: the scale factor is max(Multiplier, 1) / max(Divisor, 1): a zero
\* Multiplier or Divisor counts as 1, so the conversion never divides by
\* zero and a zero multiplier leaves a non-zero value non-zero.
C8_FactorFloorsAtOne ==
    Ran =>
      \A m \in Multipliers, dv \in Divisors, n \in DigitsRights :
        ScaledBy(m, dv, n) =>
          /\ \A s \in SmallDemands :
                data = DemandRec(s, m, dv, n) =>
                    /\ err = "none"
                    /\ ItemOf(out, "Demand") = ExpectedScaled(s, m, dv, n)
                    /\ (m = 0 /\ dv \in {0, 1} /\ n = 0)
                          => ItemOf(out, "Demand") = Float(s, 0)
          /\ \A sd \in 0..MaxDemand, sr \in 0..MaxDemand :
                data = SummationRec(sd, sr, m, dv, n) =>
                    /\ err = "none"
                    /\ ItemOf(out, "SummationDelivered") = ExpectedScaled(sd, m, dv, n)
                    /\ ItemOf(out, "SummationReceived") = ExpectedScaled(sr, m, dv, n)

\* C8's case: Multiplier 0x0 and Divisor 0x0, and a demand of 3 that stays 3.
C8_Witness ==
    /\ pc = "normalized"
    /\ data = DemandRec(3, 0, 0, 0)
    /\ ItemOf(out, "Demand") = Float(3, 0)

-----------------------------------------------------------------------------
(* Properties of process_data, under SpecNorm                              *)

RawKeySet == KeySetOf(RawKeyNames)

\* C2 (as claimed): process_data converts the leaf record of a document
\* whose root is an object exactly as it converts that record at top level,
\* whatever else the lists on the way hold.
C2_LeafAsTopLevel ==
    (Ran /\ data.t = "dict" /\ HasKey(Leaf(data), "Demand")) =>
        \A top \in {process_data(Leaf(data))} :
            top.err = "none" => (err = "none" /\ Leaf(out) = top.v)

\* C3 (as claimed): a second process_data on a normalised structure raises
\* nothing and changes nothing.
C3_SecondRunIsNoOp == RanTwice => (err2 = "none" /\ out2 = out)

HasReFiringKey(d) == HasKey(d, "Price") \/ HasKey(d, "TimeStamp")

\* C3 (amended): a second process_data on a normalised structure changes
\* nothing; it raises nothing exactly when no record has a Price or a
\* TimeStamp key, and a TypeError otherwise, those two rules firing again on
\* the converted values.
C3_SecondRunAmended ==
    RanTwice =>
        /\ out2 = out
        /\ \A recs \in {Records(out)} :
              IF \E i \in 1..Len(recs) : HasReFiringKey(recs[i])
              THEN err2 = "TypeError"
              ELSE err2 = "none"

\* C3's case: a record converted by the demand rule, and by nothing else,
\* has gone through process_data twice.
C3_Witness ==
    /\ pc = "renormalized"
    /\ HasKey(Leaf(data), "Multiplier")
    /\ Len(Records(data)) > 1

\* C4: once normalisation has completed, a record that held Multiplier,
\* Divisor, DigitsRight, DigitsLeft and SuppressLeadingZero holds none of
\* them, in the Demand branch and in the Summation branch.
C4_RawKeysRemoved ==
    Succeeded =>
        \A before \in {Records(data)}, after \in {Records(out)} :
            \A i \in 1..Len(before) :
                RawKeySet \subseteq Keys(before[i])
                    => Keys(after[i]) \cap RawKeySet = {}

\* C4's case: a nested record with the five keys and no Demand (the
\* Summation branch) has been normalised.
C4_Witness ==
    /\ pc = "normalized"
    /\ Len(Records(data)) > 1
    /\ RawKeySet \subseteq Keys(Leaf(data))
    /\ ~HasKey(Leaf(data), "Demand")
    /\ ItemOf(Leaf(out), "SummationDelivered").t = "float"

RemovedKeys(d) ==
    (IF HasKey(d, "Multiplier") THEN RawKeySet ELSE {})
    \cup (IF HasKey(d, "Price") THEN {Key("TrailingDigits")} ELSE {})

ConvertedKeys ==
    KeySetOf({"Demand", "SummationDelivered", "SummationReceived",
              "Price", "Currency", "TimeStamp"})

IsScalar(v) == v.t \notin {"dict", "list"}

RuleOrders ==
    {p \in [1..3 -> {"demand", "price", "timestamp"}] :
        \A i, j \in 1..3 : p[i] = p[j] => i = j}

\* C10: after a successful process_data each record has its original keys
\* less the removed raw keys and no other, every scalar field outside the
\* six converted ones has its original value, and a record of scalars comes
\* out the same in whatever order the three rules are applied.
C10_NoKeyAdded ==
    Succeeded =>
        \A before \in {Records(data)}, after \in {Records(out)} :
            \A i \in 1..Len(before) :
                /\ Keys(after[i]) = Keys(before[i]) \ RemovedKeys(before[i])
                /\ \A j \in 1..Len(after[i].kv) :
                      (after[i].kv[j].k \notin ConvertedKeys /\ IsScalar(after[i].kv[j].v))
                          => after[i].kv[j].v = ItemOf(before[i], after[i].kv[j].k[1])
                /\ (\A j \in 1..Len(before[i].kv) : IsScalar(before[i].kv[j].v))
                      => \A order \in RuleOrders :
                            ApplyRules(before[i], order) = Ok(after[i])

\* C10's case: a record with the three trigger keys and a foreign scalar
\* has been normalised.
C10_Witness ==
    /\ pc = "normalized"
    /\ \A n \in {"Multiplier", "Price", "TimeStamp", "DeviceMacId"} : HasKey(Leaf(data), n)
    /\ ItemOf(Leaf(out), "DeviceMacId") = ItemOf(Leaf(data), "DeviceMacId")

-----------------------------------------------------------------------------
(* Response text and json.loads                                            *)
(* A text is a sequence of lexemes: the six punctuation marks, a string    *)
(* (with its content), white space, and a piece that is no JSON at all.    *)
(* Objects, arrays and strings are the JSON the documents here use.        *)

Mark(c) == [lx |-> c, s |-> <<>>]
Quoted(chunks) == [lx |-> "string", s |-> chunks]
Space == Mark(" ")
Junk == Mark("<html>")

\* A wrong repair: only the first of the two keys is looked for.
TEMP_RESPONSE_FIX_OneKey(s) ==
    IF s # <<>> /\ s[1] = Quoted(Key("HistoryData"))
    THEN <<Mark("{")>> \o s \o <<Mark("}")>>
    ELSE s

\* Lines 213-220.  s.startswith('"HistoryData"'): the text begins with the
\* quoted key, as its first lexeme.
TEMP_RESPONSE_FIX(s) ==
    IF \/ (s # <<>> /\ s[1] = Quoted(Key("HistoryData")))
       \/ (s # <<>> /\ s[1] = Quoted(Key("ScheduleList")))
    THEN <<Mark("{")>> \o s \o <<Mark("}")>>
    ELSE s

RECURSIVE SkipWs(_, _)
SkipWs(toks, i) ==
    IF i <= Len(toks) /\ toks[i] = Space THEN SkipWs(toks, i + 1) ELSE i

At(toks, i) == IF i <= Len(toks) THEN toks[i].lx ELSE "end"

Bad == [ok |-> FALSE, v |-> None, next |-> 0]
Good(v, next) == [ok |-> TRUE, v |-> v, next |-> next]

\* d[k] = v while an object is read: a repeated key keeps its place and
\* takes the last value.
PutPair(kv, k, v) ==
    IF \E i \in 1..Len(kv) : kv[i].k = k
    THEN [kv EXCEPT ![CHOOSE i \in 1..Len(kv) : kv[i].k = k].v = v]
    ELSE Append(kv, [k |-> k, v |-> v])

RECURSIVE ParseValue(_, _)
RECURSIVE ParseMembers(_, _, _)
RECURSIVE ParseElements(_, _, _)

MemberNext(toks, i, kv) ==
    IF At(toks, i) = "}" THEN Good(Dict(kv), i + 1)
    ELSE IF At(toks, i) = "," THEN ParseMembers(toks, SkipWs(toks, i + 1), kv)
    ELSE Bad

MemberValue(toks, k, r, kv) ==
    IF ~r.ok THEN Bad ELSE MemberNext(toks, SkipWs(toks, r.next), PutPair(kv, k, r.v))

MemberColon(toks, k, i, kv) ==
    IF At(toks, i) # ":" THEN Bad ELSE MemberValue(toks, k, ParseValue(toks, i + 1), kv)

\* The members of an object from lexeme i on, kv read so far.
ParseMembers(toks, i, kv) ==
    IF At(toks, i) # "string" THEN Bad
    ELSE MemberColon(toks, toks[i].s, SkipWs(toks, i + 1), kv)

ElementNext(toks, i, items) ==
    IF At(toks, i) = "]" THEN Good(List(items), i + 1)
    ELSE IF At(toks, i) = "," THEN ParseElements(toks, i + 1, items)
    ELSE Bad

ElementValue(toks, r, items) ==
    IF ~r.ok THEN Bad ELSE ElementNext(toks, SkipWs(toks, r.next), Append(items, r.v))

\* The elements of an array from lexeme i on, items read so far.
ParseElements(toks, i, items) == ElementValue(toks, ParseValue(toks, i), items)

ParseObject(toks, i) ==
    IF At(toks, i) = "}" THEN Good(Dict(<<>>), i + 1) ELSE ParseMembers(toks, i, <<>>)

ParseArray(toks, i) ==
    IF At(toks, i) = "]" THEN Good(List(<<>>), i + 1) ELSE ParseElements(toks, i, <<>>)

ParseValueAt(toks, i) ==
    CASE At(toks, i) = "string" -> Good(Str(toks[i].s), i + 1)
      [] At(toks, i) = "{" -> ParseObject(toks, SkipWs(toks, i + 1))
      [] At(toks, i) = "[" -> ParseArray(toks, SkipWs(toks, i + 1))
      [] OTHER -> Bad

ParseValue(toks, i) == ParseValueAt(toks, SkipWs(toks, i))

WholeText(toks, r) ==
    IF r.ok /\ SkipWs(toks, r.next) > Len(toks) THEN r ELSE Bad

\* json.loads(text): ok with the value, or not ok (a ValueError).
json_loads(text) == WholeText(text, ParseValue(text, 1))

\* The text the device writes for a structure.
RECURSIVE Dump(_)
RECURSIVE DumpPairs(_, _)
RECURSIVE DumpItems(_, _)
Dump(v) ==
    IF v.t = "dict" THEN <<Mark("{")>> \o DumpPairs(v.kv, 1) \o <<Mark("}")>>
    ELSE IF v.t = "list" THEN <<Mark("[")>> \o DumpItems(v.items, 1) \o <<Mark("]")>>
    ELSE <<Quoted(v.s)>>
DumpPairs(kv, i) ==
    IF i > Len(kv) THEN <<>>
    ELSE (IF i > 1 THEN <<Mark(",")>> ELSE <<>>)
         \o <<Quoted(kv[i].k), Mark(":")>> \o Dump(kv[i].v) \o DumpPairs(kv, i + 1)
DumpItems(items, i) ==
    IF i > Len(items) THEN <<>>
    ELSE (IF i > 1 THEN <<Mark(",")>> ELSE <<>>)
         \o Dump(items[i]) \o DumpItems(items, i + 1)

-----------------------------------------------------------------------------
(* class Eagle                                                             *)

SAFETY_ON == TRUE

EVENT_VALS ==
    <<"", "time", "message", "price", "summation", "demand",
      "scheduled_prices", "profile_data", "billing_period", "block_period">>

\* Eagle.__init__: self.addr from ADDR_TEMPLATE, or from MDNS_TEMPLATE when
\* no address is given.  An optional argument is <<>> (None) or <<value>>.
Eagle_init(cloud_id, install_code, address) ==
    IF address # <<>>
    THEN <<"http://", cloud_id, ":", install_code, "@", address[1]>>
    ELSE <<"http://", cloud_id, ":", install_code, "@eagle-", cloud_id, ".local">>

\* The '<{0}>{1!s}</{0}>\n' of every keyword argument, in order.
RECURSIVE ParameterTags(_)
ParameterTags(kws) ==
    IF kws = <<>> THEN <<>>
    ELSE <<"<", Head(kws).k, ">">> \o Head(kws).v \o <<"</", Head(kws).k, ">\n">>
         \o ParameterTags(Tail(kws))

make_cmd(command, kws) ==
    <<"<Command>\\n<Name>", command, "</Name>\\n<Format>JSON</Format>">>
    \o ParameterTags(kws) \o <<"</Command>\n">>

make_local_cmd(command, kws) ==
    <<"<LocalCommand>\\n<Name>", command, "</Name>\\n">>
    \o ParameterTags(kws) \o <<"</LocalCommand>\n">>

\* hex(n), as characters
PyHex(n) ==
    IF n = 0 THEN <<"0", "x", "0">>
    ELSE (IF n < 0 THEN <<"-">> ELSE <<>>)
         \o <<"0", "x">>
         \o [i \in 1..Len(HexDigitsOf(IF n < 0 THEN 0 - n ELSE n)) |->
                LowerHexChar(HexDigitsOf(IF n < 0 THEN 0 - n ELSE n)[i])]

\* requests' Response.raise_for_status(): an HTTPError for a client or a
\* server error status, and nothing for any other status.
RaisesForStatus(status) == 400 <= status /\ status < 600

\* What post_cmd_final leaves: the exception, the steps taken, the parsed
\* structure and the value returned.
Outcome(e, st, parsed, returned) ==
    [err |-> e, steps |-> st, data |-> parsed, out |-> returned]

\* Lines 85-86: raise_for_status() is called for a status other than 200.
StepsToStatus(status) ==
    IF status # 200 THEN <<"post", "raise_for_status">> ELSE <<"post">>

\* Lines 95-96, on r == process_data(data).
Processed(st, parsed, r) ==
    IF r.err # "none"
    THEN Outcome(r.err, st \o <<"process_data">>, parsed, None)
    ELSE Outcome("none", st \o <<"process_data", "return">>, parsed, r.v)

\* Lines 90-96, on p == json.loads(response_text).
Loaded(st, p) ==
    IF ~p.ok THEN Outcome("ValueError", st, None, None)
    ELSE Processed(st, p.v, process_data(p.v))

\* Lines 85-96 of post_cmd_final, on the transport's answer.
HandleResponse(resp) ==
    IF resp.status # 200 /\ RaisesForStatus(resp.status)
    THEN Outcome("HTTPError", StepsToStatus(resp.status), None, None)
    ELSE Loaded(StepsToStatus(resp.status) \o <<"TEMP_RESPONSE_FIX", "json.loads">>,
                json_loads(TEMP_RESPONSE_FIX(resp.text)))

-----------------------------------------------------------------------------
(* The answers of the transport                                            *)

EagleShapes == {<<>>, <<"list">>, <<"listScalar">>, <<"dict", "list">>}

EagleKeySets ==
    { {},
      RawKeyNames \cup {"Demand", "TimeStamp", "DeviceMacId"},
      RawKeyNames \cup SummationKeyNames,
      PriceKeyNames \cup {"TimeStamp"},
      (RawKeyNames \ {"Divisor"}) \cup {"Demand"},
      (RawKeyNames \ {"DigitsLeft"}) \cup {"Demand"},
      RawKeyNames \cup {"SummationDelivered"},
      RawKeyNames,
      PriceKeyNames \ {"TrailingDigits"},
      PriceKeyNames \ {"Currency"} }

Envelopes == {"HistoryData", "ScheduleList", "InstantaneousDemand"}

EagleDocs ==
    {Dict(<<[k |-> Key(e), v |-> Wrap(sh, Rec(K))]>>) :
        e \in Envelopes, sh \in EagleShapes, K \in EagleKeySets}

\* A text without its first and last lexeme: the firmware's defect.
Braceless(text) == SubSeq(text, 2, Len(text) - 1)

TextsOf(text) == {text, Braceless(text), <<Space>> \o Braceless(text)}

Texts == UNION {TextsOf(Dump(doc)) : doc \in EagleDocs} \cup {<<>>, <<Junk>>}

SampleDoc == Dict(<<[k |-> Key("HistoryData"), v |-> Rec(PriceKeyNames)]>>)

Responses ==
    {[status |-> 200, text |-> tx] : tx \in Texts}
    \cup {[status |-> st, text |-> tx] :
            st \in {201, 404, 500},
            tx \in TextsOf(Dump(SampleDoc)) \cup {<<>>, <<Junk>>}}

-----------------------------------------------------------------------------
(* The public commands.  A call is one action: the request, the answer of  *)
(* the transport and what post_cmd_final makes of it.  The client keeps    *)
(* nothing between calls but addr, so one call from the constructed state  *)
(* stands for every call.                                                  *)

CallOf(name, start_time, end_time, frequency, event) ==
    [name |-> name, start_time |-> start_time, end_time |-> end_time,
     frequency |-> frequency, event |-> event]

\* The call ends with exception e before anything is sent.
RaiseUnsent(c, e) ==
    /\ pc' = "raised"
    /\ call' = c
    /\ err' = e
    /\ UNCHANGED <<EPOCH_DELTA, addr, sent, response, steps, data, out, out2, err2>>

\* Lines 80-96: post_cmd_final(address, post_data).
post_cmd_final(c, address, post_data) ==
    /\ call' = c
    /\ sent' = Append(sent, [url |-> address, headers |-> <<"Content-Type", "application/xml">>,
                             body |-> post_data])
    /\ \/ \E resp \in Responses :
            \E o \in {HandleResponse(resp)} :
                /\ response' = resp
                /\ steps' = o.steps
                /\ data' = o.data
                /\ out' = o.out
                /\ err' = o.err
                /\ pc' = IF o.err = "none" THEN "returned" ELSE "raised"
       \/ \* requests.post itself raises: no answer
          /\ response' = None
          /\ steps' = <<"post">>
          /\ err' = "ConnectionError"
          /\ pc' = "raised"
          /\ UNCHANGED <<data, out>>
    /\ UNCHANGED <<EPOCH_DELTA, addr, out2, err2>>

\* Lines 70-73.
post_cmd(c, command, kws) ==
    post_cmd_final(c, addr \o <<"/cgi-bin/post_manager">>, make_cmd(command, kws))

\* Lines 75-78.
post_local_cmd(c, command, kws) ==
    post_cmd_final(c, addr \o <<"/cgi-bin/cgi_manager">>, make_local_cmd(command, kws))

PostCommands ==
    {"get_network_info", "get_network_status", "get_instantaneous_demand",
     "get_price", "get_message", "get_current_summation", "get_demand_peaks"}
LocalCommands == {"get_device_list", "get_setting_data"}
StubCommands == {"list_network", "confirm_message", "set_schedule", "reboot"}

\* get_network_info, get_network_status, get_instantaneous_demand,
\* get_price, get_message, get_current_summation, get_demand_peaks
SimpleCommand ==
    /\ pc = "idle"
    /\ \E name \in PostCommands :
          post_cmd(CallOf(name, <<>>, <<>>, <<>>, <<>>), name, <<>>)

\* get_device_list, get_setting_data
LocalCommand ==
    /\ pc = "idle"
    /\ \E name \in LocalCommands :
          post_local_cmd(CallOf(name, <<>>, <<>>, <<>>, <<>>), name, <<>>)

\* list_network, confirm_message, set_schedule, reboot
StubCommand ==
    /\ pc = "idle"
    /\ \E name \in StubCommands :
          RaiseUnsent(CallOf(name, <<>>, <<>>, <<>>, <<>>), "NotImplementedError")

StartTimes == {946684800}
EndTimes == {<<>>, <<946688400>>}
Frequencies == {<<>>, <<0 - 1>>, <<0>>, <<65535>>, <<65536>>, <<70000>>}

\* A wrong bound: 65535 itself refused.
FrequencyRefused_OffByOne(frequency) == frequency >= 65535 \/ frequency < 0

\* Line 136: frequency > 0xffff or frequency < 0
FrequencyRefused(frequency) == frequency > 65535 \/ frequency < 0

\* Lines 129-138: the keyword arguments of the request.
HistoryKws(start_time, end_time, frequency) ==
    <<[k |-> "StartTime", v |-> PyHex(start_time - EPOCH_DELTA)]>>
    \o (IF end_time # <<>>
        THEN <<[k |-> "EndTime", v |-> PyHex(end_time[1] - EPOCH_DELTA)]>> ELSE <<>>)
    \o (IF frequency # <<>>
        THEN <<[k |-> "Frequency", v |-> PyHex(frequency[1])]>> ELSE <<>>)

\* Lines 128-140.
get_history_data ==
    /\ pc = "idle"
    /\ \E start_time \in StartTimes, end_time \in EndTimes, frequency \in Frequencies :
          IF frequency # <<>> /\ SAFETY_ON /\ FrequencyRefused(frequency[1])
          THEN RaiseUnsent(CallOf("get_history_data", <<start_time>>, end_time, frequency, <<>>),
                           "ValueError")
          ELSE post_cmd(CallOf("get_history_data", <<start_time>>, end_time, frequency, <<>>),
                        "get_history_data", HistoryKws(start_time, end_time, frequency))

Events ==
    {<<>>} \cup {<<EVENT_VALS[i]>> : i \in 1..Len(EVENT_VALS)}
    \cup {<<"Time">>, <<"reboot">>}

\* Line 146-147: event = '' when event is None
EventOrEmpty(event) == IF event = <<>> THEN "" ELSE event[1]

\* Line 149: SAFETY_ON and event not in EVENT_VALS
EventRefused(event) ==
    SAFETY_ON /\ ~\E i \in 1..Len(EVENT_VALS) : EVENT_VALS[i] = event

\* Lines 145-151.
get_schedule ==
    /\ pc = "idle"
    /\ \E event \in Events :
          IF EventRefused(EventOrEmpty(event))
          THEN RaiseUnsent(CallOf("get_schedule", <<>>, <<>>, <<>>, event), "ValueError")
          ELSE post_cmd(CallOf("get_schedule", <<>>, <<>>, <<>>, event),
                        "get_schedule", <<[k |-> "Event", v |-> <<EventOrEmpty(event)>>]>>)

Next == SimpleCommand \/ LocalCommand \/ StubCommand \/ get_history_data \/ get_schedule

Init ==
    /\ pc = "idle"
    /\ EPOCH_DELTA \in EpochDeltas
    /\ addr \in {Eagle_init("0012ab", "0123456789abcdef", address) :
                    address \in {<<>>, <<"192.168.1.17">>}}
    /\ call = None /\ sent = <<>> /\ response = None /\ steps = <<>>
    /\ data = None /\ out = None /\ err = "none" /\ out2 = None /\ err2 = "none"

Spec == Init /\ [][Next]_vars

-----------------------------------------------------------------------------
(* Properties of the commands, under Spec                                  *)

Called == pc \in {"returned", "raised"}
Answered == Called /\ response # None

\* C5 (as claimed): an answer with a status other than 200 ends the call
\* with an HTTP error: nothing is repaired, parsed or normalised, nothing
\* is returned, and the request is sent once.
C5_Non200IsHttpError ==
    (Answered /\ response.status # 200) =>
        /\ err = "HTTPError"
        /\ steps = <<"post", "raise_for_status">>
        /\ data = None /\ out = None
        /\ Len(sent) = 1

EventSet == {EVENT_VALS[i] : i \in 1..Len(EVENT_VALS)}

\* C6: a frequency outside [0, 65535] and an event outside the event set
\* (None standing for the empty string, which is inside) end the call with
\* an invalid-parameter error and nothing sent; every other frequency and
\* event is sent, once.
C6_ValidationBeforeTransport ==
    Called =>
        /\ call.name = "get_history_data" =>
              IF call.frequency # <<>>
                 /\ (call.frequency[1] < 0 \/ call.frequency[1] > 65535)
              THEN err = "ValueError" /\ sent = <<>> /\ response = None
              ELSE Len(sent) = 1
        /\ call.name = "get_schedule" =>
              IF call.event # <<>> /\ call.event[1] \notin EventSet
              THEN err = "ValueError" /\ sent = <<>> /\ response = None
              ELSE Len(sent) = 1

\* C6's case: get_history_data with frequency 65535 has been sent.
C6_Witness ==
    /\ Called
    /\ call.name = "get_history_data"
    /\ call.frequency = <<65535>>
    /\ Len(sent) = 1
    /\ sent[1].body = make_cmd("get_history_data",
                               HistoryKws(call.start_time[1], call.end_time, call.frequency))

\* A rule's trigger key is present and one of its dependent keys is not.
Malformed(d) ==
    \/ /\ HasKey(d, "Multiplier")
       /\ \/ \E n \in RawKeyNames : ~HasKey(d, n)
          \/ /\ ~HasKey(d, "Demand")
             /\ \E n \in SummationKeyNames : ~HasKey(d, n)
    \/ /\ HasKey(d, "Price")
       /\ (~HasKey(d, "TrailingDigits") \/ ~HasKey(d, "Currency"))

\* Every rule that applies to the record has been applied in full.
Normalised(d) ==
    /\ ~HasKey(d, "Multiplier")
    /\ HasKey(d, "Demand") => ItemOf(d, "Demand").t \in {"float", "str"}
    /\ HasKey(d, "Price") =>
          /\ ItemOf(d, "Price").t = "float"
          /\ ItemOf(d, "Currency").t = "int"
          /\ ~HasKey(d, "TrailingDigits")
    /\ HasKey(d, "TimeStamp") => ItemOf(d, "TimeStamp").t = "time"

\* C7: a record with a trigger key and without one of its dependent keys,
\* anywhere in the answer, makes the command raise; a command that raises
\* returns nothing, and one that returns, returns every record normalised.
C7_MalformedFailsOutright ==
    Called =>
        /\ pc = "raised" => out = None
        /\ data # None =>
              \A before \in {Records(data)} :
                  (\E i \in 1..Len(before) : Malformed(before[i]))
                      => (pc = "raised" /\ err # "none")
        /\ pc = "returned" =>
              \A after \in {Records(out)} :
                  \A i \in 1..Len(after) : Normalised(after[i])

\* C7's case: an answer with a record in a list that has Multiplier and no
\* Divisor has been handled.
C7_Witness ==
    /\ pc = "raised"
    /\ err = "KeyError"
    /\ data # None
    /\ data.kv[1].v.t = "list"
    /\ \E i \in 2..Len(Records(data)) :
          /\ HasKey(Records(data)[i], "Multiplier")
          /\ ~HasKey(Records(data)[i], "Divisor")

StartsWithKey(text, name) == text # <<>> /\ text[1] = Quoted(Key(name))

Braced(text) == <<Mark("{")>> \o text \o <<Mark("}")>>

\* The structure post_cmd_final parsed is the one the text tx stands for.
ParsedAs(tx) ==
    \A p \in {json_loads(tx)} :
        IF p.ok THEN data = p.v ELSE (data = None /\ err = "ValueError")

\* C9: the text is put between braces exactly when it begins with the
\* quoted key "HistoryData" or "ScheduleList" and is otherwise left as it
\* is, a leading brace included; the brace-less text is parsed as the braced
\* one, and a repaired text is not repaired again.
C9_RepairIsPrefixTest ==
    (Answered /\ Len(steps) > 2 /\ steps[Len(StepsToStatus(response.status)) + 1] = "TEMP_RESPONSE_FIX") =>
        \A fixed \in {TEMP_RESPONSE_FIX(response.text)} :
            /\ IF \/ StartsWithKey(response.text, "HistoryData")
                  \/ StartsWithKey(response.text, "ScheduleList")
               THEN fixed = Braced(response.text) /\ ParsedAs(Braced(response.text))
               ELSE fixed = response.text /\ ParsedAs(response.text)
            /\ TEMP_RESPONSE_FIX(fixed) = fixed

\* C9's case: a brace-less "ScheduleList" answer has been parsed and
\* returned.
C9_Witness ==
    /\ pc = "returned"
    /\ StartsWithKey(response.text, "ScheduleList")
    /\ HasKey(data, "ScheduleList")
    /\ Braceless(Dump(data)) = response.text

====
